---- MODULE Spec2Model ----
(***************************************************************************)
(* Model of the spin variant of the lazy initialization cell               *)
(* (src/src/lazy.rs, Lazy<T>) and of the accessor generated by             *)
(* lazy_static_unboxed_spin! (src/src/lib.rs, get_or_init).                *)
(*                                                                         *)
(* Every atomic access uses Ordering::SeqCst, so the executions of the     *)
(* program are the interleavings of the threads' atomic steps.  One action *)
(* of the model is one such step of one thread; the purely thread-local    *)
(* `match status` that follows a load or compare_and_swap is folded into   *)
(* the step that produced `status`.                                        *)
(***************************************************************************)
EXTENDS Integers, Sequences, FiniteSets, TLC

(* ------------------------------ bounds --------------------------------- *)
NThreads == 2      \* number of threads calling get
MaxCalls == 2      \* top-level calls of get made by one thread
NFields  == 2      \* machine words of a value of type T (storage is written word by word)

(* --------------------------- program constants ------------------------- *)
ATOMIC_UINT_INIT == 0      \* initial value of Lazy.1 (state Empty)
Running == 1               \* compare_and_swap(0, 1, ..)
Done == 2                  \* status = 2; self.1.store(status, ..)
Placeholder == 0           \* $u, the value the UnsafeCell is created with

Cells   == {"A", "B"}
NoCell  == "none"
Threads == 1..NThreads
Fields  == 1..NFields

(* A builder is the FnOnce passed to get: either a closure returning a     *)
(* constant (|| 1), or the body of a declaration that reads another cell   *)
(* through its accessor (times_two of COUNT.get_or_init()).                 *)
Closure(k) == [dep |-> NoCell, val |-> k]
Reads(c)   == [dep |-> c, val |-> Placeholder]

times_two(n) == n * 2

(* A value of type T occupies NFields words; Repr lays a number out in     *)
(* storage, AsU32 reads it back through the reference.                     *)
Repr(n)  == [i \in Fields |-> n]
AsU32(s) == s[1]

VARIABLES
    state,      \* state[c]   : Lazy.1 of cell c (AtomicUint)
    storage,    \* storage[c] : Lazy.0 of cell c (UnsafeCell<T>), word by word
    decl,       \* decl[c]    : the builder of the declaration of cell c ($e)
    roots,      \* the cells the threads of the program call get on directly
    direct,     \* the constants k of the closures || k the threads pass to Lazy::get
    called,     \* the cells on which get has been called so far
    stack,      \* stack[t]   : the activations of Lazy::get of thread t, innermost last
    results,    \* results[t] : what the finished top-level calls of t returned
    invoked,    \* invoked[c] : the builders that were executed on cell c, in order
    alive,      \* alive[t]   : thread t has not aborted
    stuck,      \* cells whose initializing thread aborted inside the builder
    variant     \* state, storage, stack, results and invoked of the same program
                \* built from a get without the return of line 28

vars == <<state, storage, decl, roots, direct, called, stack, results, invoked, alive, stuck, variant>>

(* ------------------------- activations of get -------------------------- *)
NewFrame(c, b) ==
    [cell |-> c, b |-> b, pc |-> "load", status |-> 0, tmp |-> 0,
     written |-> {}, first |-> -1, loads |-> 0, cass |-> 0]

Top(t)    == stack[t][Len(stack[t])]
Active(t) == alive[t] /\ stack[t] # <<>>
At(t, l)  == Active(t) /\ Top(t).pc = l

SetTop(t, f) == [stack EXCEPT ![t] = [@ EXCEPT ![Len(@)] = f]]
Sat(n) == IF n < 2 THEN n + 1 ELSE 2

\* as Arm, but a caller that finds the cell Done runs its own builder
Arm_rebuild(status) ==
    CASE status = 0 -> "cas"
      [] status = 1 -> "spin"
      [] OTHER      -> "builder"

\* as Arm, but a caller that finds the cell Done goes through the compare_and_swap
Arm_slow(status) ==
    CASE status = 0 -> "cas"
      [] status = 1 -> "spin"
      [] OTHER      -> "cas"

\* as Arm, but a caller that finds the cell Running returns at once
Arm_nowait(status) ==
    CASE status = 0 -> "cas"
      [] OTHER      -> "ret32"

\* as Arm, but a caller that finds the cell Running tries the compare_and_swap again
Arm_retry(status) ==
    CASE status = 0 -> "cas"
      [] status = 1 -> "cas"
      [] OTHER      -> "ret32"

\* match status { 0 => .., 1 => .., _ => .. }
Arm(status) ==
    CASE status = 0 -> "cas"
      [] status = 1 -> "spin"
      [] OTHER      -> "ret32"

\* as compare_and_swap, but the atomic is left as it was (a load in place of the swap)
cas_no_swap(cur) == cur

\* as compare_and_swap, but a swap: Running is stored whatever the atomic held
cas_unconditional(cur) == Running

\* self.1.compare_and_swap(0, 1, SeqCst): the value left in the atomic
compare_and_swap(cur) == IF cur = 0 THEN Running ELSE cur

\* as cas_result, but the caller takes the value it compared with for the previous value
cas_result_stale(cur) == 0

\* compare_and_swap returns the previous value
cas_result(cur) == cur

\* as WinnerNext, but Done is stored before storage is written
WinnerStoreFirst(pc) ==
    CASE pc = "builder" -> "store"
      [] pc = "store"   -> "write"
      [] pc = "write"   -> "ret28"

\* as WinnerNext, but the result of the builder is not written to storage
WinnerSkipWrite(pc) ==
    CASE pc = "builder" -> "store"
      [] pc = "write"   -> "store"
      [] pc = "store"   -> "ret28"

\* as WinnerNext, but the winner returns without storing Done
WinnerNoStore(pc) ==
    CASE pc = "builder" -> "write"
      [] pc = "write"   -> "ret28"
      [] pc = "store"   -> "ret28"

\* the winner's path: *self.0.get() = builder(); status = 2; self.1.store(..); return ..
WinnerNext(pc) ==
    CASE pc = "builder" -> "write"
      [] pc = "write"   -> "store"
      [] pc = "store"   -> "ret28"

\* as spin_load, but the loop does not read the atomic again
spin_stale(c, status) == status

\* 1 => status = self.1.load(SeqCst): the value the spinning caller reads
spin_load(c, status) == state[c]

\* unsafe { &*self.0.get() }, read through by the caller
force_get(c) == storage[c]

(* ----------------------------- declarations ---------------------------- *)
\* lazy_static_unboxed_spin! { static COUNT = {0; 5}; static NUMBER = {0; times_two of COUNT.get_or_init()}; }
Example == { [A |-> Reads("B"), B |-> Closure(5)] }

\* as InitWith, but every declared value is built when the cell is created
InitEager(decls, rootsets, closures) ==
    /\ decl \in decls
    /\ roots \in rootsets
    /\ direct = closures
    /\ called = {}
    /\ state = [c \in Cells |-> Done]
    /\ storage = [c \in Cells |->
                    Repr(IF decl[c].dep = NoCell THEN decl[c].val
                         ELSE times_two(decl[decl[c].dep].val))]
    /\ stack = [t \in Threads |-> <<>>]
    /\ results = [t \in Threads |-> <<>>]
    /\ invoked = [c \in Cells |-> <<decl[c]>>]
    /\ alive = [t \in Threads |-> TRUE]
    /\ stuck = {}
    /\ variant = [state |-> state, storage |-> storage, stack |-> stack,
                  results |-> results, invoked |-> invoked]

InitWith(decls, rootsets, closures) ==
    /\ decl \in decls
    /\ roots \in rootsets
    /\ direct = closures
    /\ called = {}
    /\ state = [c \in Cells |-> ATOMIC_UINT_INIT]
    /\ storage = [c \in Cells |-> Repr(Placeholder)]
    /\ stack = [t \in Threads |-> <<>>]
    /\ results = [t \in Threads |-> <<>>]
    /\ invoked = [c \in Cells |-> <<>>]
    /\ alive = [t \in Threads |-> TRUE]
    /\ stuck = {}
    /\ variant = [state |-> state, storage |-> storage, stack |-> stack,
                  results |-> results, invoked |-> invoked]

Init == InitWith(Example, {{"A"}}, {1, 2})

(* ------------------------------- actions ------------------------------- *)
\* a thread calls NAME.get_or_init() or Lazy::get(|| k) on a cell
Call(t, c, b) ==
    /\ alive[t] /\ stack[t] = <<>>
    /\ Len(results[t]) < MaxCalls
    /\ stack' = [stack EXCEPT ![t] = <<NewFrame(c, b)>>]
    /\ called' = called \cup {c}
    /\ UNCHANGED <<state, storage, decl, roots, direct, results, invoked, alive, stuck>>

\* let mut status = self.1.load(SeqCst);
Load(t) ==
    /\ At(t, "load")
    /\ LET f == Top(t)
           s == state[f.cell]
       IN stack' = SetTop(t, [f EXCEPT !.status = s, !.first = s, !.loads = 1,
                                       !.pc = Arm(s)])
    /\ UNCHANGED <<state, storage, decl, roots, direct, called, results, invoked, alive, stuck>>

\* 0 => { status = self.1.compare_and_swap(0, 1, SeqCst); if status == 0 { .. } }
Cas(t) ==
    /\ At(t, "cas")
    /\ LET f == Top(t)
           cur == state[f.cell]
           s == cas_result(cur)
       IN /\ state' = [state EXCEPT ![f.cell] = compare_and_swap(cur)]
          /\ stack' = SetTop(t, [f EXCEPT !.status = s, !.cass = Sat(@),
                                          !.pc = IF s = 0 THEN "builder" ELSE Arm(s)])
    /\ UNCHANGED <<storage, decl, roots, direct, called, results, invoked, alive, stuck>>

\* 1 => status = self.1.load(SeqCst), // we spin
Spin(t) ==
    /\ At(t, "spin")
    /\ LET f == Top(t)
           s == spin_load(f.cell, f.status)
       IN stack' = SetTop(t, [f EXCEPT !.status = s, !.loads = Sat(@), !.pc = Arm(s)])
    /\ UNCHANGED <<state, storage, decl, roots, direct, called, results, invoked, alive, stuck>>

\* builder() for a builder that reads no cell
BuilderRun(t) ==
    /\ At(t, "builder")
    /\ Top(t).b.dep = NoCell
    /\ LET f == Top(t)
       IN /\ invoked' = [invoked EXCEPT ![f.cell] = Append(@, f.b)]
          /\ stack' = SetTop(t, [f EXCEPT !.tmp = f.b.val, !.pc = WinnerNext("builder")])
    /\ UNCHANGED <<state, storage, decl, roots, direct, called, results, alive, stuck>>

\* builder() for a builder that calls get_or_init of another cell:
\* fn builder() -> $T { $e }  self.inner.get(builder)
BuilderCall(t) ==
    /\ At(t, "builder")
    /\ Top(t).b.dep # NoCell
    /\ LET f == Top(t)
           d == f.b.dep
       IN /\ invoked' = [invoked EXCEPT ![f.cell] = Append(@, f.b)]
          /\ stack' = [stack EXCEPT ![t] =
                          Append([@ EXCEPT ![Len(@)] = [f EXCEPT !.pc = "await"]],
                                 NewFrame(d, decl[d]))]
          /\ called' = called \cup {d}
    /\ UNCHANGED <<state, storage, decl, roots, direct, results, alive, stuck>>

\* *self.0.get() = <value>: word i of storage is written
WriteWord(t, i) ==
    /\ At(t, "write")
    /\ i \in Fields \ Top(t).written
    /\ LET f == Top(t)
       IN /\ storage' = [storage EXCEPT ![f.cell][i] = f.tmp]
          /\ stack' = SetTop(t, [f EXCEPT !.written = @ \cup {i},
                                 !.pc = IF f.written \cup {i} = Fields
                                        THEN WinnerNext("write") ELSE "write"])
    /\ UNCHANGED <<state, decl, roots, direct, called, results, invoked, alive, stuck>>

\* *self.0.get() = <value>: one word of storage is written, in any order
Write(t) == \E i \in Fields : WriteWord(t, i)

\* status = 2; self.1.store(status, SeqCst);
Store(t) ==
    /\ At(t, "store")
    /\ LET f == Top(t)
       IN /\ state' = [state EXCEPT ![f.cell] = Done]
          /\ stack' = SetTop(t, [f EXCEPT !.status = Done, !.pc = WinnerNext("store")])
    /\ UNCHANGED <<storage, decl, roots, direct, called, results, invoked, alive, stuck>>

\* return self.force_get(): to the builder that called, or to the thread
Return(t) ==
    /\ Active(t)
    /\ Top(t).pc \in {"ret28", "ret32"}
    /\ LET f == Top(t)
           v == force_get(f.cell)
           n == Len(stack[t])
       IN IF n > 1
          THEN /\ stack' = [stack EXCEPT ![t] =
                               [SubSeq(@, 1, n - 1) EXCEPT ![n - 1] =
                                   [@ EXCEPT !.tmp = times_two(AsU32(v)), !.pc = WinnerNext("builder")]]]
               /\ UNCHANGED results
          ELSE /\ stack' = [stack EXCEPT ![t] = <<>>]
               /\ results' = [results EXCEPT ![t] =
                                 Append(@, [cell |-> f.cell, val |-> v])]
    /\ UNCHANGED <<state, storage, decl, roots, direct, called, invoked, alive, stuck>>

\* as Abort, but the cells the thread was initializing are put back to Empty
AbortReset(t) ==
    /\ At(t, "builder")
    /\ LET f == Top(t)
       IN invoked' = [invoked EXCEPT ![f.cell] = Append(@, f.b)]
    /\ LET held == { stack[t][i].cell : i \in
                       { j \in 1..Len(stack[t]) : stack[t][j].pc \in {"builder", "await"} } }
       IN /\ stuck' = stuck \cup held
          /\ state' = [c \in Cells |-> IF c \in held THEN 0 ELSE state[c]]
    /\ stack' = [stack EXCEPT ![t] = <<>>]
    /\ alive' = [alive EXCEPT ![t] = FALSE]
    /\ UNCHANGED <<storage, decl, roots, direct, called, results>>

\* the builder aborts the thread: every activation of the thread is unwound
Abort(t) ==
    /\ At(t, "builder")
    /\ LET f == Top(t)
       IN invoked' = [invoked EXCEPT ![f.cell] = Append(@, f.b)]
    /\ stuck' = stuck \cup { stack[t][i].cell : i \in
                    { j \in 1..Len(stack[t]) : stack[t][j].pc \in {"builder", "await"} } }
    /\ stack' = [stack EXCEPT ![t] = <<>>]
    /\ alive' = [alive EXCEPT ![t] = FALSE]
    /\ UNCHANGED <<state, storage, decl, roots, direct, called, results>>

Passed(c) == {decl[c]} \cup {Closure(k) : k \in direct}

\* one step of thread t in Lazy::get as it is in the source
Step(t) ==
    \/ \E c \in roots : \E b \in Passed(c) : Call(t, c, b) /\ UNCHANGED variant
    \/ Load(t) /\ UNCHANGED variant
    \/ Cas(t) /\ UNCHANGED variant
    \/ Spin(t) /\ UNCHANGED variant
    \/ BuilderRun(t) /\ UNCHANGED variant
    \/ BuilderCall(t) /\ UNCHANGED variant
    \/ Write(t) /\ UNCHANGED variant
    \/ Store(t) /\ UNCHANGED variant
    \/ Return(t) /\ UNCHANGED variant

Next == \E t \in Threads : Step(t)

Spec == Init /\ [][Next]_vars

\* every thread keeps being scheduled (parallel native threads)
Fair == \A t \in Threads : WF_vars(Step(t))
FairSpec == Spec /\ Fair

\* the declared cells A (reads B) and B are both accessed by the threads,
\* through the generated accessor only
InitTwo == InitWith(Example, {{"A", "B"}}, {})
SpecTwo == InitTwo /\ [][Next]_vars
FairSpecTwo == SpecTwo /\ Fair

\* the activations that are between a successful compare_and_swap on cell c
\* and the store of Done (thread and depth in its stack)
Holders(c) ==
    UNION { { <<t, i>> : i \in { j \in 1..Len(stack[t]) :
                                   /\ stack[t][j].cell = c
                                   /\ stack[t][j].pc \in {"builder", "await", "write", "store"} } }
            : t \in Threads }

\* only the threads that hold a cell are scheduled fairly
Holding(t) == \E c \in Cells : \E p \in Holders(c) : p[1] = t
FairWinner == \A t \in Threads : WF_vars(Holding(t) /\ Step(t))
WinnerFairSpec == SpecTwo /\ FairWinner

\* a builder may abort its thread
NextAbort == \E t \in Threads : Step(t) \/ (Abort(t) /\ UNCHANGED variant)
SpecAbort == Init /\ [][NextAbort]_vars

\* the declaration of A reads A itself
Reentrant == { [A |-> Reads("A"), B |-> Closure(5)] }
InitReentrant == InitWith(Reentrant, {{"A"}}, {1})
SpecReentrant == InitReentrant /\ [][Next]_vars

\* the declaration of A reads B and the declaration of B reads A; the
\* program is declared either so or as in the example, and its threads use
\* the generated accessors of A and B
Cyclic == { [A |-> Reads("B"), B |-> Reads("A")] }
InitCyclic == InitWith(Cyclic \cup Example, {{"A", "B"}}, {})
SpecCyclic == InitCyclic /\ [][Next]_vars

(* -------------- get without the return of line 28 (lazy.rs) ------------ *)
\* The same steps on the variant's own state, storage, stack, results and
\* invoked.  After the store the winner goes round the loop with status = 2.
VTop(t)      == variant.stack[t][Len(variant.stack[t])]
VActive(t)   == alive[t] /\ variant.stack[t] # <<>>
VAt(t, l)    == VActive(t) /\ VTop(t).pc = l
VSetTop(t, f) == [variant.stack EXCEPT ![t] = [@ EXCEPT ![Len(@)] = f]]

VCall(t, c, b) ==
    /\ alive[t] /\ variant.stack[t] = <<>>
    /\ Len(variant.results[t]) < MaxCalls
    /\ variant' = [variant EXCEPT !.stack[t] = <<NewFrame(c, b)>>]

VLoad(t) ==
    /\ VAt(t, "load")
    /\ LET f == VTop(t)
           s == variant.state[f.cell]
       IN variant' = [variant EXCEPT !.stack =
              VSetTop(t, [f EXCEPT !.status = s, !.first = s, !.loads = 1, !.pc = Arm(s)])]

VCas(t) ==
    /\ VAt(t, "cas")
    /\ LET f == VTop(t)
           cur == variant.state[f.cell]
           s == cas_result(cur)
       IN variant' = [variant EXCEPT
              !.state[f.cell] = compare_and_swap(cur),
              !.stack = VSetTop(t, [f EXCEPT !.status = s, !.cass = Sat(@),
                                     !.pc = IF s = 0 THEN "builder" ELSE Arm(s)])]

VSpin(t) ==
    /\ VAt(t, "spin")
    /\ LET f == VTop(t)
           s == variant.state[f.cell]
       IN variant' = [variant EXCEPT !.stack =
              VSetTop(t, [f EXCEPT !.status = s, !.loads = Sat(@), !.pc = Arm(s)])]

VBuilderRun(t) ==
    /\ VAt(t, "builder")
    /\ VTop(t).b.dep = NoCell
    /\ LET f == VTop(t)
       IN variant' = [variant EXCEPT
              !.invoked[f.cell] = Append(@, f.b),
              !.stack = VSetTop(t, [f EXCEPT !.tmp = f.b.val, !.pc = WinnerNext("builder")])]

VBuilderCall(t) ==
    /\ VAt(t, "builder")
    /\ VTop(t).b.dep # NoCell
    /\ LET f == VTop(t)
           d == f.b.dep
       IN variant' = [variant EXCEPT
              !.invoked[f.cell] = Append(@, f.b),
              !.stack[t] = Append([@ EXCEPT ![Len(@)] = [f EXCEPT !.pc = "await"]],
                                  NewFrame(d, decl[d]))]

VWriteWord(t, i) ==
    /\ VAt(t, "write")
    /\ i \in Fields \ VTop(t).written
    /\ LET f == VTop(t)
       IN variant' = [variant EXCEPT
              !.storage[f.cell][i] = f.tmp,
              !.stack = VSetTop(t, [f EXCEPT !.written = @ \cup {i},
                                     !.pc = IF f.written \cup {i} = Fields
                                            THEN WinnerNext("write") ELSE "write"])]

\* status = 2; self.1.store(status, SeqCst); and on to the next `match status`
VStore(t) ==
    /\ VAt(t, "store")
    /\ LET f == VTop(t)
       IN variant' = [variant EXCEPT
              !.state[f.cell] = Done,
              !.stack = VSetTop(t, [f EXCEPT !.status = Done, !.pc = Arm(Done)])]

\* _ => return self.force_get()
VReturn(t) ==
    /\ VActive(t)
    /\ VTop(t).pc = "ret32"
    /\ LET f == VTop(t)
           v == variant.storage[f.cell]
           n == Len(variant.stack[t])
       IN IF n > 1
          THEN variant' = [variant EXCEPT !.stack[t] =
                   [SubSeq(@, 1, n - 1) EXCEPT ![n - 1] =
                       [@ EXCEPT !.tmp = times_two(AsU32(v)), !.pc = WinnerNext("builder")]]]
          ELSE variant' = [variant EXCEPT
                   !.stack[t] = <<>>,
                   !.results[t] = Append(@, [cell |-> f.cell, val |-> v])]

\* a step of thread t in the program as it is, and its step in the variant
\* (the same call, the same word written)
VStep(t) ==
    \/ VLoad(t) \/ VCas(t) \/ VSpin(t) \/ VBuilderRun(t) \/ VBuilderCall(t)
    \/ VStore(t) \/ VReturn(t)

PairStep(t) ==
    \/ \E c \in roots : \E b \in Passed(c) : Call(t, c, b) /\ VCall(t, c, b)
    \/ \E i \in Fields : WriteWord(t, i) /\ VWriteWord(t, i)
    \/ Load(t) /\ VStep(t)
    \/ Cas(t) /\ VStep(t)
    \/ Spin(t) /\ VStep(t)
    \/ BuilderRun(t) /\ VStep(t)
    \/ BuilderCall(t) /\ VStep(t)
    \/ Store(t) /\ VStep(t)
    \/ Return(t) /\ VStep(t)

NextPair == \E t \in Threads : PairStep(t)
SpecPair == Init /\ [][NextPair]_vars

(* ------------------------- notions used by the claims ------------------ *)
Runs(c) == Len(invoked[c])

\* every activation of get, of every thread
Frames == UNION { { stack[t][i] : i \in 1..Len(stack[t]) } : t \in Threads }
Results == UNION { { results[t][i] : i \in 1..Len(results[t]) } : t \in Threads }
Returning(f) == f.pc \in {"ret28", "ret32"}

\* what the builder that initialized cell c evaluates to
Built(c) ==
    LET b == invoked[c][1]
    IN IF b.dep = NoCell THEN b.val ELSE times_two(AsU32(storage[b.dep]))

Torn(s) == \E i, j \in Fields : s[i] # s[j]

(* ------------------------------- claims -------------------------------- *)

\* C1: for every cell the builder body is executed at most once in total,
\* whatever the interleaving of the callers, and exactly once as soon as a
\* call on the cell returns or has returned.
C1_ExactlyOnce ==
    \A c \in Cells :
        /\ Runs(c) <= 1
        /\ (  \/ \E r \in Results : r.cell = c
              \/ \E f \in Frames : f.cell = c /\ Returning(f) ) => Runs(c) = 1

\* two callers raced on the compare_and_swap of one cell: one won and is
\* returning, the other attempted the compare_and_swap, lost, and is returning
C1_Witness ==
    \E t1, t2 \in Threads :
        /\ t1 # t2
        /\ At(t1, "ret28") /\ At(t2, "ret32")
        /\ Top(t1).cell = Top(t2).cell
        /\ Top(t2).first = 0 /\ Top(t2).cass = 1
        /\ Runs(Top(t1).cell) = 1

\* C2: at the moment a call returns, and for every value a call has
\* returned, the state of the cell is Done and storage holds the complete
\* result of the builder: not the placeholder, and no partially written value.
C2_NoEarlyReturn ==
    /\ \A f \in Frames : Returning(f) =>
          /\ state[f.cell] = Done
          /\ Runs(f.cell) = 1
          /\ ~Torn(storage[f.cell])
          /\ storage[f.cell] # Repr(Placeholder)
          /\ storage[f.cell] = Repr(Built(f.cell))
    /\ \A r \in Results :
          /\ state[r.cell] = Done
          /\ ~Torn(r.val)
          /\ r.val # Repr(Placeholder)

\* a caller that found the cell Running is returning, after the winner wrote
\* storage in several steps
C2_Witness ==
    \E t \in Threads :
        /\ At(t, "ret32")
        /\ Top(t).first = Running
        /\ Top(t).loads = 2
        /\ NFields > 1

\* C3: every value returned for a cell, to a caller that built it or to one
\* that waited, is the value of the one builder that was executed on the
\* cell; it is the content of the cell's storage, the same for all callers.
C3_SameValue ==
    /\ \A r \in Results :
          /\ Runs(r.cell) = 1
          /\ r.val = Repr(Built(r.cell))
          /\ r.val = force_get(r.cell)
    /\ \A r1, r2 \in Results : r1.cell = r2.cell => r1.val = r2.val
    /\ \A f \in Frames : \A r \in Results :
          Returning(f) /\ f.cell = r.cell => force_get(f.cell) = r.val

\* one thread has received the value and another, which passed a builder
\* different from the one that was executed, is about to receive it
C3_Witness ==
    \E t1, t2 \in Threads :
        /\ t1 # t2
        /\ \E i \in 1..Len(results[t1]) : results[t1][i].cell = "A"
        /\ Active(t2) /\ Returning(Top(t2)) /\ Top(t2).cell = "A"
        /\ Top(t2).b # invoked["A"][1]

\* C4: a step of a call that found its cell Done runs no builder, and the
\* call returns the value of the builder that initialized the cell, also when
\* it passed another builder; the results of repeated calls of a thread on
\* one cell are all equal.
C4_Step(t) ==
    LET f == Top(t)
    IN  /\ invoked' = invoked
        /\ storage' = storage
        /\ Len(stack[t]) = 1 =>
              /\ Len(results'[t]) = Len(results[t]) + 1
              /\ results'[t][Len(results'[t])] =
                    [cell |-> f.cell, val |-> Repr(Built(f.cell))]
              /\ \A i \in 1..Len(results[t]) :
                    results[t][i].cell = f.cell =>
                        results[t][i].val = results'[t][Len(results'[t])].val

C4_RepeatCall ==
    [][ \A t \in Threads :
          (Active(t) /\ Top(t).first = Done /\ stack'[t] # stack[t]) => C4_Step(t) ]_vars

\* a thread called get(|| 1) and got the value of another builder, and is
\* returning from get(|| 2) on the same, Done, cell
C4_Witness ==
    \E t \in Threads :
        /\ At(t, "ret32") /\ Top(t).first = Done
        /\ Top(t).b = Closure(2)
        /\ Len(results[t]) = 1 /\ results[t][1].cell = Top(t).cell
        /\ invoked[Top(t).cell][1] \notin {Closure(1), Closure(2)}

\* C5: under fair scheduling of every thread, with builders that terminate
\* and do not read their own cell, every call of get returns.  A thread is
\* inside get from its call to the return, so a call that never returns would
\* leave it inside get forever: every thread is outside get again and again.
C5_Progress == \A t \in Threads : []<>(~Active(t))

\* a caller spins on a cell that is Running, having re-read the state already
C5_Witness ==
    \E t \in Threads :
        /\ At(t, "spin")
        /\ Top(t).status = Running /\ Top(t).loads = 2
        /\ state[Top(t).cell] = Running

\* C6: a call whose first load of state reads Done changes neither state
\* nor storage and runs no builder: the load takes it to the default arm
\* without a compare_and_swap, and its only other step is the return, which
\* reads storage.
C6_Step(t) ==
    LET f == Top(t)
        n == Len(stack[t])
    IN  /\ UNCHANGED <<state, storage, invoked>>
        /\ f.pc = "load" =>
              stack'[t] = [stack[t] EXCEPT ![n] =
                  [f EXCEPT !.status = Done, !.first = Done, !.loads = 1, !.pc = "ret32"]]
        /\ f.pc # "load" =>
              /\ f.pc = "ret32" /\ f.loads = 1 /\ f.cass = 0
              /\ Len(stack'[t]) = n - 1
              /\ n = 1 => results'[t] =
                    Append(results[t], [cell |-> f.cell, val |-> storage[f.cell]])

C6_FastPath ==
    [][ \A t \in Threads :
          ( /\ Active(t)
            /\ stack'[t] # stack[t]
            /\ \/ Top(t).pc = "load" /\ state[Top(t).cell] = Done
               \/ Top(t).first = Done ) => C6_Step(t) ]_vars

\* two threads are on the fast path of the same cell at once
C6_Witness ==
    \E t1, t2 \in Threads :
        /\ t1 # t2
        /\ At(t1, "ret32") /\ Top(t1).first = Done
        /\ At(t2, "ret32") /\ Top(t2).first = Done
        /\ Top(t1).cell = Top(t2).cell

\* C7: a cell on which get has not been called is Empty, holds the value it
\* was created with, and its builder has not been executed.
C7_Deferred ==
    \A c \in Cells :
        c \notin called =>
            /\ state[c] = 0
            /\ Runs(c) = 0
            /\ storage[c] = Repr(Placeholder)

\* get has been called on A, whose builder is about to run, and not yet on B
C7_Witness ==
    /\ "B" \notin called
    /\ \E t \in Threads : At(t, "builder") /\ Top(t).cell = "A"
    /\ state["A"] = Running /\ state["B"] = 0

\* C8: once the thread that won the compare_and_swap of a cell has aborted
\* inside the builder, the cell is Running in every later state, its builder
\* is never executed again, and no call on the cell returns or has returned:
\* every other caller is before its compare_and_swap or in the spin loop.
C8_StuckRunning ==
    \A c \in stuck :
        /\ state[c] = Running
        /\ Runs(c) = 1
        /\ \A f \in Frames : f.cell = c => f.pc \in {"load", "cas", "spin"}
        /\ \A r \in Results : r.cell # c

\* the winner of A aborted; a thread that called afterwards found A Running
\* and keeps re-reading it
C8_Witness ==
    /\ "A" \in stuck
    /\ \E t1, t2 \in Threads :
          /\ ~alive[t1]
          /\ At(t2, "spin") /\ Top(t2).cell = "A"
          /\ Top(t2).first = Running /\ Top(t2).loads = 2

\* C9: once a builder that calls get on the cell it is initializing has been
\* executed on cell c, c is Running in every later state and never Done: the
\* outer call waits for the inner one, the inner call reads Running and
\* spins, and no call on c returns.
C9_Reentrant ==
    \A c \in Cells :
        (Runs(c) >= 1 /\ invoked[c][1].dep = c) =>
            /\ state[c] = Running
            /\ Runs(c) = 1
            /\ \A r \in Results : r.cell # c
            /\ \A f \in Frames : f.cell = c => f.pc \in {"load", "cas", "spin", "await"}
            /\ \E t \in Threads :
                  /\ Len(stack[t]) = 2
                  /\ stack[t][1].cell = c /\ stack[t][1].pc = "await"
                  /\ stack[t][2].cell = c /\ stack[t][2].pc \in {"load", "spin"}
                  /\ stack[t][2].pc = "spin" => stack[t][2].status = Running

\* the inner call of the builder of A spins on A, and so does another thread
C9_Witness ==
    \E t1, t2 \in Threads :
        /\ t1 # t2
        /\ Len(stack[t1]) = 2
        /\ stack[t1][1].cell = "A" /\ stack[t1][1].pc = "await"
        /\ stack[t1][2].cell = "A" /\ stack[t1][2].pc = "spin" /\ stack[t1][2].loads = 2
        /\ At(t2, "spin") /\ Top(t2).cell = "A" /\ Top(t2).loads = 2

\* C10: with the builder of A reading the independent cell B and threads
\* calling get on A and on B, under fair scheduling: each builder runs at
\* most once; when A is Done, B is Done, each builder has run exactly once
\* and the value of A is twice the value B was initialized with; every call
\* returns (no thread stays inside get forever); and once get was called on
\* A, both cells become Done (called only grows and Done is kept, so the
\* implication holding again and again means Done follows the call).
C10_Safe ==
    /\ \A c \in Cells : Runs(c) <= 1
    /\ state["A"] = Done =>
          /\ state["B"] = Done
          /\ Runs("A") = 1 /\ Runs("B") = 1
          /\ storage["B"] = Repr(decl["B"].val)
          /\ storage["A"] = Repr(2 * decl["B"].val)
    /\ \A r \in Results :
          /\ state[r.cell] = Done
          /\ r.cell = "A" => r.val = Repr(2 * decl["B"].val)

C10_Independent ==
    /\ []C10_Safe
    /\ \A t \in Threads : []<>(~Active(t))
    /\ []<>("A" \in called => state["A"] = Done /\ state["B"] = Done)

\* the builder of A, run by one thread, waits in get on B while another
\* thread is writing the value of B
C10_Witness ==
    \E t1, t2 \in Threads :
        /\ Len(stack[t1]) = 2
        /\ stack[t1][1].cell = "A" /\ stack[t1][1].pc = "await"
        /\ stack[t1][2].cell = "B" /\ stack[t1][2].pc = "spin"
        /\ At(t2, "write") /\ Top(t2).cell = "B"

\* C11: the state of a cell is always Empty (0), Running (1) or Done (2), and
\* a step changes it only from Empty to Running, by the compare_and_swap of a
\* caller that thereby wins, or from Running to Done, by the store of the
\* winner: it never goes back, and once Done it is Done in every later state.
C11_Change(c) ==
    \/ /\ state[c] = 0 /\ state'[c] = Running
       /\ \E t \in Threads :
             /\ At(t, "cas") /\ Top(t).cell = c
             /\ Len(stack'[t]) = Len(stack[t])
             /\ stack'[t][Len(stack[t])].pc = "builder"
    \/ /\ state[c] = Running /\ state'[c] = Done
       /\ \E t \in Threads :
             /\ At(t, "store") /\ Top(t).cell = c
             /\ stack'[t] # stack[t]

C11_Forward ==
    /\ [](\A c \in Cells : state[c] \in {0, Running, Done})
    /\ [][ \A c \in Cells : state'[c] # state[c] => C11_Change(c) ]_vars

\* a caller that loaded Empty did its compare_and_swap on a cell that was
\* Done by then: the cell stayed Done
C11_Witness ==
    \E t \in Threads :
        /\ At(t, "ret32")
        /\ Top(t).first = 0 /\ Top(t).cass = 1 /\ Top(t).loads = 1
        /\ state[Top(t).cell] = Done

\* C12: whenever the state of a cell is Done, its builder has been executed,
\* every word of storage holds the result of that builder, and no thread is
\* still writing storage: the winner stores Done after its last write.
C12_DoneImpliesWritten ==
    \A c \in Cells :
        state[c] = Done =>
            /\ Runs(c) = 1
            /\ storage[c] = Repr(Built(c))
            /\ storage[c] # Repr(Placeholder)
            /\ \A f \in Frames :
                  f.cell = c => f.pc \notin {"builder", "await", "write", "store"}

\* the winner has just stored Done and a caller that saw Running has not yet
\* re-read the state
C12_Witness ==
    \E t1, t2 \in Threads :
        /\ At(t1, "ret28") /\ state[Top(t1).cell] = Done
        /\ Top(t1).written = Fields
        /\ At(t2, "spin") /\ Top(t2).cell = Top(t1).cell
        /\ Top(t2).status = Running

\* C13: a step changes the storage of a cell only while the cell is Running,
\* and it is a write of the winner: the one thread that is past its successful
\* compare_and_swap on the cell writes one word it has not written before.
\* No step changes storage of a cell that is Empty or Done, and the cell has
\* at most one thread that holds it for writing.
C13_WriteStep(c) ==
    /\ state[c] = Running /\ state'[c] = Running
    /\ Runs(c) = 1
    /\ Holders(c)' = Holders(c)
    /\ \E t \in Threads :
          /\ At(t, "write") /\ Top(t).cell = c
          /\ Holders(c) = {<<t, Len(stack[t])>>}
          /\ \E i \in Fields \ Top(t).written :
                /\ storage'[c] = [storage[c] EXCEPT ![i] = Top(t).tmp]
                /\ stack'[t][Len(stack[t])].written = Top(t).written \cup {i}

C13_WrittenOnce ==
    /\ [](\A c \in Cells : Cardinality(Holders(c)) <= 1)
    /\ [][ \A c \in Cells : storage'[c] # storage[c] => C13_WriteStep(c) ]_vars

\* the winner has written one word of storage and not yet the other ones
C13_Witness ==
    \E t \in Threads :
        /\ At(t, "write")
        /\ Top(t).written # {} /\ Top(t).written # Fields
        /\ Torn(storage[Top(t).cell])
        /\ state[Top(t).cell] = Running

\* C14: for every cell, at most one thread is between its successful
\* compare_and_swap and its store of Done; the state is Running exactly when
\* there is such a thread, counting a thread that aborted inside the builder
\* (it never stores Done); and a thread is at a return, where storage is read,
\* only when the state is Done, so that no read of storage overlaps the write.
C14_MutualExclusion ==
    \A c \in Cells :
        /\ Cardinality(Holders(c)) <= 1
        /\ c \in stuck => Holders(c) = {}
        /\ state[c] = Running <=> (Holders(c) # {} \/ c \in stuck)
        /\ \A f \in Frames :
              (f.cell = c /\ Returning(f)) => (state[c] = Done /\ Holders(c) = {})
        /\ state[c] # Done => \A r \in Results : r.cell # c

\* the winner is in the middle of the write of storage while another thread
\* spins on the cell
C14_Witness ==
    \E t1, t2 \in Threads :
        /\ At(t1, "write") /\ Top(t1).written # {}
        /\ Holders(Top(t1).cell) = {<<t1, Len(stack[t1])>>}
        /\ At(t2, "spin") /\ Top(t2).cell = Top(t1).cell
        /\ Top(t2).loads = 2

\* C15: under fair scheduling of the threads that hold a cell (those between
\* a successful compare_and_swap and the store of Done), and whatever the
\* other threads do, a cell that is Running eventually is Done.
C15_RunningTransient ==
    \A c \in Cells : (state[c] = Running) ~> (state[c] = Done)

\* A is Running, its winner has not finished the builder, and another thread
\* spins on A
C15_Witness ==
    \E t1, t2 \in Threads :
        /\ state["A"] = Running
        /\ Holders("A") = {<<t1, 1>>} /\ stack[t1][1].pc = "await"
        /\ At(t2, "spin") /\ Top(t2).cell = "A" /\ Top(t2).loads = 2

\* C16: a caller that does not win writes nothing.  Its compare_and_swap on a
\* cell that is not Empty, and each load of its spin loop, leave state,
\* storage and the log of executed builders unchanged and run no builder; the
\* caller stays in the loop while it reads Running and leaves it, to the
\* return, only when it reads Done; its return changes nothing shared either.
C16_LoserStep(t) ==
    LET f == Top(t)
        n == Len(stack[t])
        g == stack'[t][n]
    IN  /\ UNCHANGED <<state, storage, invoked, results>>
        /\ Len(stack'[t]) = n
        /\ g.cell = f.cell /\ g.b = f.b /\ g.written = {} /\ g.tmp = f.tmp
        /\ g.status = state[f.cell]
        /\ state[f.cell] \in {Running, Done}
        /\ state[f.cell] = Running => g.pc = "spin"
        /\ state[f.cell] = Done => g.pc = "ret32"

C16_LoserWritesNothing ==
    [][ \A t \in Threads :
          /\ ( /\ Active(t)
               /\ \/ Top(t).pc = "spin"
                  \/ Top(t).pc = "cas" /\ state[Top(t).cell] # 0
               /\ stack'[t] # stack[t] ) => C16_LoserStep(t)
          /\ ( /\ Active(t)
               /\ Top(t).pc = "ret32"
               /\ stack'[t] # stack[t] ) => UNCHANGED <<state, storage, invoked>> ]_vars

\* a caller whose compare_and_swap failed is in the spin loop and has
\* re-read Running
C16_Witness ==
    \E t \in Threads :
        /\ At(t, "spin")
        /\ Top(t).first = 0 /\ Top(t).cass = 1 /\ Top(t).loads = 2
        /\ Top(t).status = Running

\* C17: with the builder of A reading B and the builder of B reading A, the
\* state in which one thread holds A and spins in get on B while another
\* holds B and spins in get on A can be reached (the witness), and once
\* reached it lasts: both cells are Running in every later state, no call on
\* A or B returns, and each builder was executed at most once.  With these
\* declarations no cell ever becomes Done and no call ever returns.
C17_Deadlocked ==
    \E t1, t2 \in Threads :
        /\ t1 # t2
        /\ Len(stack[t1]) = 2 /\ Len(stack[t2]) = 2
        /\ stack[t1][1].cell = "A" /\ stack[t1][1].pc = "await"
        /\ stack[t1][2].cell = "B" /\ stack[t1][2].pc \in {"load", "cas", "spin"}
        /\ stack[t2][1].cell = "B" /\ stack[t2][1].pc = "await"
        /\ stack[t2][2].cell = "A" /\ stack[t2][2].pc \in {"load", "cas", "spin"}

C17_CyclicDeadlock ==
    /\ [][ C17_Deadlocked => C17_Deadlocked' ]_vars
    /\ [](C17_Deadlocked =>
            /\ state["A"] = Running /\ state["B"] = Running
            /\ Runs("A") = 1 /\ Runs("B") = 1
            /\ \A r \in Results : r.cell \notin {"A", "B"}
            /\ \A f \in Frames : ~Returning(f))
    /\ [](\A c \in Cells : Runs(c) <= 1)
    /\ [](decl \in Cyclic => \A c \in Cells : state[c] # Done /\ Results = {})

\* the deadlock: each of two threads holds one cell and spins on the other
C17_Witness ==
    /\ C17_Deadlocked
    /\ \E t1, t2 \in Threads :
          /\ Len(stack[t1]) = 2 /\ Len(stack[t2]) = 2
          /\ stack[t1][2].cell = "B" /\ stack[t1][2].pc = "spin" /\ stack[t1][2].loads = 2
          /\ stack[t2][2].cell = "A" /\ stack[t2][2].pc = "spin" /\ stack[t2][2].loads = 2
    /\ state["A"] = Running /\ state["B"] = Running

\* C19: an activation of get does the compare_and_swap at most once.  It is
\* at the compare_and_swap only with local status Empty and none done yet;
\* after a compare_and_swap that failed its local status is Running or Done,
\* never Empty again, and it is in the spin loop or at the return.
C19_Lost(f) == f.cass >= 1 /\ f.pc \notin {"builder", "await", "write", "store", "ret28"}

C19_OneCas ==
    \A f \in Frames :
        /\ f.cass <= 1
        /\ f.pc = "cas" => (f.cass = 0 /\ f.status = 0 /\ f.first = 0)
        /\ C19_Lost(f) =>
              /\ f.status \in {Running, Done}
              /\ f.pc \in {"spin", "ret32"}
              /\ state[f.cell] # 0

\* a caller whose compare_and_swap failed has spun and read Done: it is at
\* the return of the default arm, having done one compare_and_swap
C19_Witness ==
    \E t \in Threads :
        /\ At(t, "ret32")
        /\ Top(t).first = 0 /\ Top(t).cass = 1 /\ Top(t).loads = 2
        /\ Top(t).status = Done

\* C18: the program built from get without the return of line 28 and the
\* program as it is, run by the same schedule with the same calls, agree in
\* every state: same state, storage, results and executed builders, and the
\* same activations at the same place, except that the winner that has stored
\* Done is at the return of line 28 in one and, with local status 2, at the
\* return of the default arm in the other.  Both returns read storage.
C18_SameFrame(f, g) ==
    /\ [g EXCEPT !.pc = f.pc] = f
    /\ \/ g.pc = f.pc /\ f.pc # "ret28"
       \/ f.pc = "ret28" /\ g.pc = "ret32" /\ f.status = Done /\ g.status = Done

C18_SameStates ==
    /\ variant.state = state
    /\ variant.storage = storage
    /\ variant.invoked = invoked
    /\ variant.results = results
    /\ \A t \in Threads :
          /\ Len(variant.stack[t]) = Len(stack[t])
          /\ \A i \in 1..Len(stack[t]) : C18_SameFrame(stack[t][i], variant.stack[t][i])

\* the winner has stored Done: it is at the return of line 28 in the program
\* as it is and at the return of the default arm in the variant, while
\* another thread still spins
C18_Witness ==
    \E t1, t2 \in Threads :
        /\ At(t1, "ret28") /\ VAt(t1, "ret32")
        /\ At(t2, "spin") /\ VAt(t2, "spin")
        /\ Top(t2).cell = Top(t1).cell

\* C18 (schedules): a thread can step in the program as it is exactly when it
\* can step in the variant alongside it, so neither has a schedule the other
\* lacks.
C18_SameSchedules ==
    \A t \in Threads : (ENABLED Step(t)) <=> (ENABLED PairStep(t))

\* C18: the return of line 28 is strictly an optimization: get without it
\* gives, under every interleaving, the same results, the same state and
\* storage and the same executed builders, and allows the same schedules.
C18_ReturnIsOptimization == C18_SameStates /\ C18_SameSchedules
====
